---- MODULE Spec2Model ----
(***************************************************************************)
(* A model of blogger's main.py: the tree builder (walk_dir), the site     *)
(* generator (gen_blog_dir), the listing order (sort_categories), the      *)
(* front-matter reader (read_metadata, parse_metadata) and the backup-swap *)
(* deployment (deploy).                                                    *)
(*                                                                         *)
(* Paths are sequences of names relative to the directory that holds the   *)
(* input root: the input root is <<rootName>>, the output root is          *)
(* <<public_name>>.  Text (file content, metadata keys and values, listing *)
(* names) is a sequence of one-character strings.                          *)
(***************************************************************************)
EXTENDS Integers, Sequences, FiniteSets, TLC

VARIABLES
    \* ---- the source tree and the build (walk_dir, gen_blog_dir) ----
    rootName,   \* name of the input root directory
    fs,         \* source filesystem: path -> "dir" | "file"
    limits,     \* the bounds of this run of the model: [edits, calls]
    edits,      \* number of source edits made so far
    pc,         \* position of the build pipeline
    call,       \* number of walk_dir calls started in this process
    q,          \* walk_dir's deque of paths
    root,       \* walk_dir's root: a Node reference, 0 for None
    cur_node,   \* walk_dir's cur_node: the last parent lookup, 0 before any
    heap,       \* every Node constructed in this process, by reference
    cache_map,  \* Node.cache_map: source_path -> Node reference
    gq,         \* gen_blog_dir's deque of Node references
    out,        \* output filesystem: path -> [kind, origin, call]
    \* ---- sort_categories ----
    tz,         \* the local UTC offset in hours (naive datetimes)
    categories, \* the listing handed to list.sort
    sorted,     \* the listing after the sort, or the exception raised
    \* ---- read_metadata ----
    content,    \* the text of an index file
    meta,       \* read_metadata's return value, <<>> before the call
    \* ---- deploy ----
    dpc,        \* position in deploy
    remote,     \* the remote host's files
    issued,     \* the remote commands issued so far in this deploy
    deploys     \* number of deploy calls started

buildVars == <<rootName, fs, limits, edits, pc, call, q, root, cur_node, heap, cache_map, gq, out>>
sortVars == <<tz, categories, sorted>>
metaVars == <<content, meta>>
deployVars == <<dpc, remote, issued, deploys>>
vars == <<buildVars, sortVars, metaVars, deployVars>>

(***************************************************************************)
(* Bounds of the model.                                                    *)
(***************************************************************************)
\* source entries added or removed before the one build of SpecBuild
MaxEdits == 3
\* source entries added or removed before and between the builds of SpecRuns
MaxRunEdits == 2
\* walk_dir calls in one process in SpecRuns
MaxCalls == 2
\* entries of a listing in SpecSort
MaxListing == 3
\* lines of an index file in SpecMeta
MaxLines == 4
\* deploy calls in SpecDeploy
MaxDeploys == 2

(***************************************************************************)
(* Names and paths.                                                        *)
(***************************************************************************)
ignore_item == {".git", "LICENSE"}

public_name == "public"

\* the names a source entry below the root can have
Names == {"index.md", "index.html", ".git", "images", "a"}

\* the names the input root can have
RootNames == {"blog", "LICENSE"}

\* Path.name
NameOf(p) == p[Len(p)]

\* Path.parent
ParentOf(p) == SubSeq(p, 1, Len(p) - 1)

\* Path / name
Join(p, n) == Append(p, n)

\* the entries Path.iterdir yields for a directory
Entries(f, p) == {e \in DOMAIN f : Len(e) = Len(p) + 1 /\ ParentOf(e) = p}

IsPrefix(p, e) == Len(p) <= Len(e) /\ SubSeq(e, 1, Len(p)) = p

\* Path.is_dir
is_dir(f, p) == p \in DOMAIN f /\ f[p] = "dir"

\* the orders in which a directory enumeration can yield a set of entries
Orderings(S) ==
    {s \in [1..Cardinality(S) -> S] : \A i, j \in DOMAIN s : i # j => s[i] # s[j]}

\* the input root, dir_path
dir_path == <<rootName>>

\* destination_root_dir = dir_path.parent.joinpath(destination_blog_dir_name)
destination_root_dir == <<public_name>>

(***************************************************************************)
(* Text: a string is a sequence of one-character strings.                  *)
(***************************************************************************)

\* the characters of the model, in code-point order
CharOrder ==
    <<"\n",
      " ", "+", "-", ".", "0", "1", "2", "3", "4", "5", "6", "7", "8", "9", ":", "A", "B", "C", "D", "E", "F", "G", "H", "I", "J", "K", "L", "M", "N", "O", "P", "Q", "R", "S", "T", "U", "V", "W", "X", "Y", "Z", "_", "a", "b", "c", "d", "e", "f", "g", "h", "i", "j", "k", "l", "m", "n", "o", "p", "q", "r", "s", "t", "u", "v", "w", "x", "y", "z">>

\* the rank of a character in code-point order
Ord(c) == CHOOSE i \in DOMAIN CharOrder : CharOrder[i] = c

UpperCase == <<"A", "B", "C", "D", "E", "F", "G", "H", "I", "J", "K", "L", "M", "N", "O", "P", "Q", "R", "S", "T", "U", "V", "W", "X", "Y", "Z">>
LowerCase == <<"a", "b", "c", "d", "e", "f", "g", "h", "i", "j", "k", "l", "m", "n", "o", "p", "q", "r", "s", "t", "u", "v", "w", "x", "y", "z">>

\* str.lower
RECURSIVE lower(_)
lower(s) ==
    IF s = <<>> THEN <<>>
    ELSE LET c == Head(s)
             l == IF \E i \in DOMAIN UpperCase : UpperCase[i] = c
                  THEN LowerCase[CHOOSE i \in DOMAIN UpperCase : UpperCase[i] = c]
                  ELSE c
         IN  <<l>> \o lower(Tail(s))

\* str < str: lexicographic by code point
RECURSIVE StrLess(_, _)
StrLess(a, b) ==
    IF b = <<>> THEN FALSE
    ELSE IF a = <<>> THEN TRUE
    ELSE IF Head(a) = Head(b) THEN StrLess(Tail(a), Tail(b))
    ELSE Ord(Head(a)) < Ord(Head(b))

Digits == <<"0", "1", "2", "3", "4", "5", "6", "7", "8", "9">>

IsDigit(c) == \E i \in DOMAIN Digits : Digits[i] = c

DigitValue(c) == (CHOOSE i \in DOMAIN Digits : Digits[i] = c) - 1

AllDigits(s) == \A i \in DOMAIN s : IsDigit(s[i])

\* the number a string of digits denotes
RECURSIVE Num(_)
Num(s) == IF s = <<>> THEN 0 ELSE Num(SubSeq(s, 1, Len(s) - 1)) * 10 + DigitValue(s[Len(s)])

\* a mapping (dict) is a set of <<key, value>> pairs with one pair per key
Keys(m) == {kv[1] : kv \in m}

\* dict.get: <<>> for None, <<value>> otherwise
Get(m, k) == IF k \in Keys(m) THEN <<(CHOOSE kv \in m : kv[1] = k)[2]>> ELSE <<>>

\* d[k] = v
Put(m, k, v) == {kv \in m : kv[1] # k} \cup {<<k, v>>}

date_key == <<"d", "a", "t", "e">>

(***************************************************************************)
(* sort_categories: the key of the listing order, and list.sort.           *)
(***************************************************************************)

IsLeap(y) == (y % 4 = 0 /\ y % 100 # 0) \/ y % 400 = 0

DaysInMonth(y, m) ==
    IF m = 2 THEN (IF IsLeap(y) THEN 29 ELSE 28)
    ELSE IF m \in {4, 6, 9, 11} THEN 30 ELSE 31

\* days from 1970-01-01 to the civil date y-m-d
DaysFromCivil(y, m, d) ==
    LET yy == IF m <= 2 THEN y - 1 ELSE y
        era == yy \div 400
        yoe == yy - era * 400
        mp == IF m > 2 THEN m - 3 ELSE m + 9
        doy == (153 * mp + 2) \div 5 + d - 1
        doe == yoe * 365 + yoe \div 4 - yoe \div 100 + doy
    IN  era * 146097 + doe - 719468

\* the shapes of ISO-8601 text the model reads: YYYY-MM-DD, then optionally
\* THH:MM:SS, then optionally an offset +HH:MM or -HH:MM
DateShape(s) ==
    /\ Len(s) >= 10
    /\ AllDigits(SubSeq(s, 1, 4)) /\ s[5] = "-"
    /\ AllDigits(SubSeq(s, 6, 7)) /\ s[8] = "-"
    /\ AllDigits(SubSeq(s, 9, 10))

TimeShape(s) ==
    /\ Len(s) >= 19
    /\ s[11] = "T"
    /\ AllDigits(SubSeq(s, 12, 13)) /\ s[14] = ":"
    /\ AllDigits(SubSeq(s, 15, 16)) /\ s[17] = ":"
    /\ AllDigits(SubSeq(s, 18, 19))

OffsetShape(s) ==
    /\ Len(s) = 25
    /\ s[20] \in {"+", "-"}
    /\ AllDigits(SubSeq(s, 21, 22)) /\ s[23] = ":"
    /\ AllDigits(SubSeq(s, 24, 25))

\* datetime.fromisoformat accepts the text (it raises ValueError otherwise)
IsoValid(s) ==
    /\ DateShape(s)
    /\ Len(s) = 10 \/ (TimeShape(s) /\ (Len(s) = 19 \/ OffsetShape(s)))
    /\ LET y == Num(SubSeq(s, 1, 4))
           m == Num(SubSeq(s, 6, 7))
           d == Num(SubSeq(s, 9, 10))
       IN  /\ y >= 1 /\ m \in 1..12 /\ d \in 1..DaysInMonth(y, m)
    /\ Len(s) >= 19 =>
          /\ Num(SubSeq(s, 12, 13)) < 24
          /\ Num(SubSeq(s, 15, 16)) < 60
          /\ Num(SubSeq(s, 18, 19)) < 60
    /\ Len(s) = 25 =>
          /\ Num(SubSeq(s, 21, 22)) < 24
          /\ Num(SubSeq(s, 24, 25)) < 60

\* datetime.fromisoformat(s).timestamp(), in seconds; a text without offset
\* is local time, z hours east of UTC
Timestamp(s, z) ==
    LET days == DaysFromCivil(Num(SubSeq(s, 1, 4)), Num(SubSeq(s, 6, 7)), Num(SubSeq(s, 9, 10)))
        secs == IF Len(s) >= 19
                THEN Num(SubSeq(s, 12, 13)) * 3600 + Num(SubSeq(s, 15, 16)) * 60
                     + Num(SubSeq(s, 18, 19))
                ELSE 0
        off == IF Len(s) = 25
               THEN (IF s[20] = "-" THEN -1 ELSE 1)
                    * (Num(SubSeq(s, 21, 22)) * 3600 + Num(SubSeq(s, 24, 25)) * 60)
               ELSE z * 3600
    IN  days * 86400 + secs - off

\* datetime(year=1970, month=1, day=1).timestamp()
DefaultTimestamp(z) == DaysFromCivil(1970, 1, 1) * 86400 - z * 3600

\* the date a key is computed from: item['metadata'].get('date')
DateOf(item) == Get(item.metadata[1], date_key)

\* sort_categories raises ValueError on this item
KeyRaises(item) ==
    /\ item.type = "article"
    /\ DateOf(item) # <<>>
    /\ DateOf(item)[1] # <<>>
    /\ ~IsoValid(DateOf(item)[1])

\* sort_categories(item): the key, [bucket |-> -1] standing for None
sort_categories(item, z) ==
    IF item.type = "category"
    THEN [bucket |-> 0, name |-> lower(item.name), neg |-> 0]
    ELSE IF item.type = "article"
    THEN LET date == DateOf(item)
             parsed == IF date # <<>> /\ date[1] # <<>>
                       THEN Timestamp(date[1], z)
                       ELSE DefaultTimestamp(z)
         IN  [bucket |-> 1, name |-> <<>>, neg |-> -parsed]
    ELSE [bucket |-> -1, name |-> <<>>, neg |-> 0]

\* key < key raises TypeError: one of the two is None
CompareRaises(k1, k2) == k1.bucket = -1 \/ k2.bucket = -1

\* tuple < tuple
KeyLess(k1, k2) ==
    \/ k1.bucket < k2.bucket
    \/ k1.bucket = k2.bucket /\ k1.bucket = 0 /\ StrLess(k1.name, k2.name)
    \/ k1.bucket = k2.bucket /\ k1.bucket = 1 /\ k1.neg < k2.neg

\* a stable insertion of x into the sorted sequence s
RECURSIVE Insert(_, _, _)
Insert(s, x, z) ==
    IF s = <<>> THEN <<x>>
    ELSE IF KeyLess(sort_categories(x, z), sort_categories(s[Len(s)], z))
    THEN Append(Insert(SubSeq(s, 1, Len(s) - 1), x, z), s[Len(s)])
    ELSE Append(s, x)

\* the stable ascending order of a listing by key
RECURSIVE StableSort(_, _)
StableSort(s, z) ==
    IF s = <<>> THEN <<>>
    ELSE Insert(StableSort(SubSeq(s, 1, Len(s) - 1), z), s[Len(s)], z)

\* categories.sort(key=sort_categories): the exception raised, "" for none.
\* The keys are computed first; with two or more entries every key is compared.
SortError(s, z) ==
    IF \E i \in DOMAIN s : KeyRaises(s[i]) THEN "ValueError"
    ELSE IF \E i, j \in DOMAIN s :
               i # j /\ CompareRaises(sort_categories(s[i], z), sort_categories(s[j], z))
    THEN "TypeError"
    ELSE ""

\* one entry of a category's listing, as gen_blog_dir builds it
ListingEntry(type, name, metadata) ==
    [type |-> type, name |-> name, href |-> <<name, "index.html">>, metadata |-> metadata]

\* categories.sort(key=sort_categories) is run on the listing
Sort ==
    /\ sorted = <<>>
    /\ categories # <<>>
    /\ LET e == SortError(categories, tz)
       IN  sorted' = <<[error |-> e,
                        list |-> IF e = "" THEN StableSort(categories, tz) ELSE categories]>>
    /\ UNCHANGED <<tz, categories>>
    /\ UNCHANGED <<buildVars, metaVars, deployVars>>

(***************************************************************************)
(* read_metadata and parse_metadata.                                       *)
(***************************************************************************)

Delimiter == <<"-", "-", "-">>

\* s[i..] starts with t
StartsAt(s, i, t) == i + Len(t) - 1 <= Len(s) /\ SubSeq(s, i, i + Len(t) - 1) = t

\* str.split(sep) for a one-character sep
RECURSIVE Split(_, _)
Split(s, sep) ==
    IF \E i \in DOMAIN s : s[i] = sep
    THEN LET i == CHOOSE k \in DOMAIN s : s[k] = sep /\ \A j \in 1..(k - 1) : s[j] # sep
         IN  <<SubSeq(s, 1, i - 1)>> \o Split(SubSeq(s, i + 1, Len(s)), sep)
    ELSE <<s>>

Whitespace == {" ", "\n"}

\* str.strip
RECURSIVE strip(_)
strip(s) ==
    IF s = <<>> THEN s
    ELSE IF s[1] \in Whitespace THEN strip(Tail(s))
    ELSE IF s[Len(s)] \in Whitespace THEN strip(SubSeq(s, 1, Len(s) - 1))
    ELSE s

\* line.split(':', 1), both sides stripped
SplitFirstColon(line) ==
    LET i == CHOOSE k \in DOMAIN line : line[k] = ":" /\ \A j \in 1..(k - 1) : line[j] # ":"
    IN  <<strip(SubSeq(line, 1, i - 1)), strip(SubSeq(line, i + 1, Len(line)))>>

\* the loop of parse_metadata over the lines, the first line first
RECURSIVE ParseLines(_, _)
ParseLines(lines, meta_dict) ==
    IF lines = <<>> THEN meta_dict
    ELSE LET line == Head(lines)
         IN  IF \E i \in DOMAIN line : line[i] = ":"
             THEN ParseLines(Tail(lines),
                             Put(meta_dict, SplitFirstColon(line)[1], SplitFirstColon(line)[2]))
             ELSE ParseLines(Tail(lines), meta_dict)

parse_metadata(metadata) == ParseLines(Split(metadata, "\n"), {})

\* the ends e of group 1 for which ^---\n([\s\S]*?)\n---\n matches
MatchEnds(c) ==
    {e \in 4..Len(c) : StartsAt(c, e + 1, <<"\n">> \o Delimiter \o <<"\n">>)}

\* read_metadata on a file of text c
read_metadata(c) ==
    IF StartsAt(c, 1, Delimiter \o <<"\n">>) /\ MatchEnds(c) # {}
    THEN LET e == CHOOSE x \in MatchEnds(c) : \A y \in MatchEnds(c) : x <= y
         IN  parse_metadata(SubSeq(c, 5, e))
    ELSE {}

\* read_metadata is called on the file
ReadMetadata ==
    /\ meta = <<>>
    /\ meta' = <<read_metadata(content)>>
    /\ UNCHANGED content
    /\ UNCHANGED <<buildVars, sortVars, deployVars>>

(***************************************************************************)
(* walk_dir: the tree builder.                                             *)
(***************************************************************************)

\* a variant of Ignored: the list holds .git only
IgnoredMut(n) == n = ".git"

\* `item.name in ignore_item`
Ignored(n) == n \in ignore_item

\* a variant of NodeType: only a regular file named index.md makes an article
NodeTypeMut(f, item) ==
    IF is_dir(f, item)
    THEN IF \E e \in Entries(f, item) : NameOf(e) = "index.md" /\ ~is_dir(f, e)
         THEN "article"
         ELSE "category"
    ELSE "leaf"

\* the node type of an entry: leaf, or article when a directory has a direct
\* entry named index.md, or category
NodeType(f, item) ==
    IF is_dir(f, item)
    THEN IF \E e \in Entries(f, item) : NameOf(e) = "index.md"
         THEN "article"
         ELSE "category"
    ELSE "leaf"

\* item.relative_to(dir_path)
RelativeTo(item) == SubSeq(item, 2, Len(item))

\* the destination of an entry that is not the first one built
DestinationPath(item) ==
    LET destination_path == destination_root_dir \o RelativeTo(item)
    IN  IF NameOf(destination_path) = "index.md"
        THEN Join(ParentOf(destination_path), "index.html")
        ELSE destination_path

\* Node.__init__, the fields; `built` records the walk_dir call that built it
NewNode(source_path, destination_path, node_type, c) ==
    [source_path |-> source_path, destination_path |-> destination_path,
     children |-> <<>>, node_type |-> node_type, metadata |-> <<>>, built |-> c]

\* a variant of Register: an entry already in the registry is kept (setdefault)
RegisterMut(cm, source_path, ref) ==
    [p \in DOMAIN cm \cup {source_path} |-> IF p \in DOMAIN cm THEN cm[p] ELSE ref]

\* Node.__init__, the registration: Node.cache_map[source_path] = self
Register(cm, source_path, ref) ==
    [p \in DOMAIN cm \cup {source_path} |-> IF p = source_path THEN ref ELSE cm[p]]

\* the Nodes reachable from Node r through children lists
RECURSIVE ReachFrom(_, _, _)
ReachFrom(h, frontier, seen) ==
    IF frontier \subseteq seen
    THEN seen
    ELSE LET new == frontier \ seen
             next == UNION {{h[n].children[i] : i \in DOMAIN h[n].children} : n \in new}
         IN  ReachFrom(h, next, seen \cup new)

Tree(h, r) == IF r = 0 THEN {} ELSE ReachFrom(h, {r}, {})

\* a source edit between runs: a new file or directory
AddEntry ==
    /\ pc \in {"idle", "done", "failed"}
    /\ edits < limits.edits /\ call < limits.calls
    /\ \E parent \in DOMAIN fs, n \in Names, k \in {"dir", "file"} :
          /\ fs[parent] = "dir"
          /\ Join(parent, n) \notin DOMAIN fs
          /\ fs' = [p \in DOMAIN fs \cup {Join(parent, n)} |->
                      IF p = Join(parent, n) THEN k ELSE fs[p]]
    /\ edits' = edits + 1
    /\ pc' = "idle"
    /\ UNCHANGED <<rootName, limits, call, q, root, cur_node, heap, cache_map, gq, out>>
    /\ UNCHANGED <<sortVars, metaVars, deployVars>>

\* a source edit between runs: an entry is removed with all below it
RemoveEntry ==
    /\ pc \in {"idle", "done", "failed"}
    /\ edits < limits.edits /\ call < limits.calls
    /\ \E e \in DOMAIN fs :
          /\ e # dir_path
          /\ fs' = [p \in {x \in DOMAIN fs : ~IsPrefix(e, x)} |-> fs[p]]
    /\ edits' = edits + 1
    /\ pc' = "idle"
    /\ UNCHANGED <<rootName, limits, call, q, root, cur_node, heap, cache_map, gq, out>>
    /\ UNCHANGED <<sortVars, metaVars, deployVars>>

\* walk_dir is called: lines 54-63
WalkStart ==
    /\ pc \in {"idle", "done", "failed"}
    /\ call < limits.calls
    /\ call' = call + 1
    /\ q' = <<dir_path>>
    /\ root' = 0
    /\ cur_node' = 0
    /\ pc' = "walk"
    /\ UNCHANGED <<rootName, limits, fs, edits, heap, cache_map, gq, out>>
    /\ UNCHANGED <<sortVars, metaVars, deployVars>>

\* one iteration of walk_dir's loop: lines 66-95
WalkStep ==
    /\ pc = "walk"
    /\ q # <<>>
    /\ LET item == Head(q) IN
       IF Ignored(NameOf(item))
       THEN /\ q' = Tail(q)
            /\ UNCHANGED <<root, cur_node, heap, cache_map, pc>>
       ELSE \E listing \in Orderings(Entries(fs, item)) :
            LET node_type == NodeType(fs, item)
                n == Len(heap) + 1
            IN  /\ q' = Tail(q) \o listing
                /\ IF root = 0
                   THEN /\ heap' = Append(heap, NewNode(item, destination_root_dir, node_type, call))
                        /\ root' = n
                        /\ cache_map' = Register(cache_map, item, n)
                        /\ UNCHANGED <<cur_node, pc>>
                   ELSE IF ParentOf(item) \notin DOMAIN cache_map
                   THEN \* KeyError
                        /\ pc' = "failed"
                        /\ UNCHANGED <<root, cur_node, heap, cache_map>>
                   ELSE /\ cur_node' = cache_map[ParentOf(item)]
                        /\ heap' = [Append(heap, NewNode(item, DestinationPath(item), node_type, call))
                                      EXCEPT ![cur_node'].children = Append(@, n)]
                        /\ cache_map' = Register(cache_map, item, n)
                        /\ UNCHANGED <<root, pc>>
    /\ UNCHANGED <<rootName, limits, fs, edits, call, gq, out>>
    /\ UNCHANGED <<sortVars, metaVars, deployVars>>

\* walk_dir returns root: lines 96-99
WalkReturn ==
    /\ pc = "walk"
    /\ q = <<>>
    /\ pc' = "walked"
    /\ UNCHANGED <<rootName, limits, fs, edits, call, q, root, cur_node, heap, cache_map, gq, out>>
    /\ UNCHANGED <<sortVars, metaVars, deployVars>>

(***************************************************************************)
(* gen_blog_dir: the site generator.                                       *)
(***************************************************************************)

\* the text of a name of the model
Chars(n) ==
    CASE n = "index.md" -> <<"i", "n", "d", "e", "x", ".", "m", "d">>
      [] n = "index.html" -> <<"i", "n", "d", "e", "x", ".", "h", "t", "m", "l">>
      [] n = ".git" -> <<".", "g", "i", "t">>
      [] n = "images" -> <<"i", "m", "a", "g", "e", "s">>
      [] n = "a" -> <<"a">>
      [] n = "public" -> <<"p", "u", "b", "l", "i", "c">>
      [] n = "blog" -> <<"b", "l", "o", "g">>
      [] n = "LICENSE" -> <<"L", "I", "C", "E", "N", "S", "E">>

\* the front matter an index.md of the model can hold
MetaSamples ==
    {{},
     {<<date_key, <<"2", "0", "2", "4", "-", "0", "1", "-", "0", "1", "T", "0", "0", ":", "0", "0", ":", "0", "0", "+", "0", "0", ":", "0", "0">>>>},
     {<<date_key, <<"y", "e", "s", "t", "e", "r", "d", "a", "y">>>>}}

Prefixes(p) == {SubSeq(p, 1, i) : i \in 1..Len(p)}

\* a variant of rmtree: the directory itself is kept with what it holds
rmtreeMut(o, p) == o

\* shutil.rmtree(p)
rmtree(o, p) == [x \in {y \in DOMAIN o : ~IsPrefix(p, y)} |-> o[x]]

\* Path.mkdir(p, parents=True, exist_ok=True) succeeds: nothing on the way is a file
MkdirOk(o, p) == \A x \in Prefixes(p) : x \in DOMAIN o => o[x].kind = "dir"

Mkdir(o, p, tag) ==
    [x \in DOMAIN o \cup Prefixes(p) |->
        IF x \in DOMAIN o THEN o[x] ELSE [kind |-> "dir", origin |-> tag.origin, call |-> tag.call]]

\* open(p, mode='w') succeeds: the directory exists and p is no directory
WriteOk(o, p) ==
    /\ ParentOf(p) \in DOMAIN o /\ o[ParentOf(p)].kind = "dir"
    /\ p \in DOMAIN o => o[p].kind = "file"

Write(o, p, tag) ==
    [x \in DOMAIN o \cup {p} |->
        IF x = p THEN [kind |-> "file", origin |-> tag.origin, call |-> tag.call] ELSE o[x]]

\* shutil.copy(src, dst): into dst when dst is a directory
CopyTarget(o, src, dst) ==
    IF dst \in DOMAIN o /\ o[dst].kind = "dir" THEN Join(dst, NameOf(src)) ELSE dst

\* gen_blog_dir is called with walk_dir's result: lines 184-192
GenStart ==
    /\ pc = "walked"
    /\ IF root = 0
       THEN \* root is None: AttributeError
            /\ pc' = "failed"
            /\ UNCHANGED <<gq, out>>
       ELSE /\ gq' = <<root>>
            /\ out' = IF heap[root].destination_path \in DOMAIN out
                      THEN rmtree(out, heap[root].destination_path)
                      ELSE out
            /\ pc' = "gen"
    /\ UNCHANGED <<rootName, limits, fs, edits, call, q, root, cur_node, heap, cache_map>>
    /\ UNCHANGED <<sortVars, metaVars, deployVars>>

\* the category branch for Node ref: lines 199-216
GenCategory(ref) ==
    LET node == heap[ref]
        tag == [origin |-> node.source_path, call |-> call]
        kids == node.children
        articles == {i \in DOMAIN kids : heap[kids[i]].node_type = "article"}
        unreadable == {i \in articles : is_dir(fs, Join(heap[kids[i]].source_path, "index.md"))}
        read == {i \in articles : \A j \in unreadable : i < j}
    IN  IF ~MkdirOk(out, node.destination_path)
        THEN pc' = "failed" /\ UNCHANGED <<out, heap>>
        ELSE \E metas \in [read -> MetaSamples] :
             LET made == Mkdir(out, node.destination_path, tag)
                 filled == [n \in DOMAIN heap |->
                              IF \E i \in read : kids[i] = n
                              THEN [heap[n] EXCEPT !.metadata =
                                      <<metas[CHOOSE i \in read : kids[i] = n]>>]
                              ELSE heap[n]]
                 categories_ == [i \in DOMAIN kids |->
                                  ListingEntry(filled[kids[i]].node_type,
                                               Chars(NameOf(filled[kids[i]].destination_path)),
                                               filled[kids[i]].metadata)]
                 category_index == Join(node.destination_path, "index.html")
             IN  /\ heap' = filled
                 /\ IF unreadable # {} \/ SortError(categories_, tz) # ""
                       \/ ~WriteOk(made, category_index)
                    THEN pc' = "failed" /\ out' = made
                    ELSE pc' = pc /\ out' = Write(made, category_index, tag)

\* the article branch: lines 218-219
GenArticle(ref) ==
    LET node == heap[ref]
        tag == [origin |-> node.source_path, call |-> call]
    IN  /\ IF MkdirOk(out, node.destination_path)
           THEN pc' = pc /\ out' = Mkdir(out, node.destination_path, tag)
           ELSE pc' = "failed" /\ out' = out
        /\ UNCHANGED heap

\* the leaf branch: lines 221-227
GenLeaf(ref) ==
    LET node == heap[ref]
        tag == [origin |-> node.source_path, call |-> call]
        parent == ParentOf(node.destination_path)
    IN  /\ IF ~MkdirOk(out, parent)
           THEN pc' = "failed" /\ out' = out
           ELSE LET made == Mkdir(out, parent, tag)
                    target == IF NameOf(node.source_path) = "index.md"
                              THEN node.destination_path
                              ELSE CopyTarget(made, node.source_path, node.destination_path)
                IN  IF WriteOk(made, target)
                    THEN pc' = pc /\ out' = Write(made, target, tag)
                    ELSE pc' = "failed" /\ out' = made
        /\ UNCHANGED heap

\* one iteration of gen_blog_dir's loop: lines 194-227
GenStep ==
    /\ pc = "gen"
    /\ gq # <<>>
    /\ LET ref == Head(gq)
           node == heap[ref]
       IN  /\ gq' = Tail(gq) \o node.children
           /\ IF node.node_type = "category" /\ NameOf(node.source_path) # "images"
              THEN GenCategory(ref)
              ELSE IF node.node_type = "article"
              THEN GenArticle(ref)
              ELSE IF node.node_type = "leaf"
              THEN GenLeaf(ref)
              ELSE UNCHANGED <<pc, out, heap>>
    /\ UNCHANGED <<rootName, limits, fs, edits, call, q, root, cur_node, cache_map>>
    /\ UNCHANGED <<sortVars, metaVars, deployVars>>

\* gen_blog_dir returns: lines 229-230
GenReturn ==
    /\ pc = "gen"
    /\ gq = <<>>
    /\ pc' = "done"
    /\ UNCHANGED <<rootName, limits, fs, edits, call, q, root, cur_node, heap, cache_map, gq, out>>
    /\ UNCHANGED <<sortVars, metaVars, deployVars>>

(***************************************************************************)
(* Properties of walk_dir and gen_blog_dir.                                *)
(***************************************************************************)

\* the Nodes reachable from walk_dir's root
TreeNodes == Tree(heap, root)

\* the Nodes the current walk_dir call has constructed
BuiltNow == {n \in DOMAIN heap : heap[n].built = call}

\* an entry none of whose names, from the input root down to its own, is ignored
Visible(e) == \A x \in Prefixes(e) : NameOf(x) \notin ignore_item

\* C1: when walk_dir returns, the source paths of the Nodes reachable from the
\* root are exactly the entries whose own name and whose ancestors' names,
\* counted from the input root down, are outside the ignore set; each such entry
\* has exactly one Node, no two Nodes share a source_path, and an entry that is
\* ignored or lies below an ignored entry has no Node and is in no children list.
C1_TreeIsVisibleEntries ==
    pc = "walked" =>
        /\ {heap[n].source_path : n \in TreeNodes} = {e \in DOMAIN fs : Visible(e)}
        /\ \A e \in DOMAIN fs :
              Cardinality({n \in BuiltNow : heap[n].source_path = e})
                  = (IF Visible(e) THEN 1 ELSE 0)
        /\ \A n, m \in TreeNodes : heap[n].source_path = heap[m].source_path => n = m
        /\ \A n \in BuiltNow : \A i \in DOMAIN heap[n].children :
              Visible(heap[heap[n].children[i]].source_path)

\* walk_dir has returned a tree of several Nodes from a source that holds an
\* ignored directory, below the root, with an entry inside it
C1_Witness ==
    /\ pc = "walked"
    /\ Cardinality(TreeNodes) >= 2
    /\ \E e \in DOMAIN fs : Len(e) >= 3 /\ NameOf(ParentOf(e)) \in ignore_item

\* C4: the root Node's destination_path is the output root; every other Node's
\* is the output root joined with its source path relative to the input root,
\* except that a leaf named index.md maps to index.html in the same directory.
C4_DestinationMapping ==
    pc = "walked" =>
        \A n \in TreeNodes :
           LET node == heap[n]
               mirrored == destination_root_dir \o RelativeTo(node.source_path)
           IN  IF n = root
               THEN node.destination_path = destination_root_dir
               ELSE IF node.node_type = "leaf" /\ NameOf(node.source_path) = "index.md"
               THEN node.destination_path = Join(ParentOf(mirrored), "index.html")
               ELSE node.destination_path = mirrored

C6_DestructiveRebuild ==
    /\ pc = "gen" /\ gq = <<root>> => DOMAIN out = {}
    /\ pc = "done" =>
          \A p \in DOMAIN out :
             /\ out[p].call = call
             /\ out[p].origin \in DOMAIN fs
             /\ \E n \in TreeNodes : heap[n].source_path = out[p].origin

\* a second run has succeeded and written output after a source entry that an
\* earlier run had built a Node for was removed
C6_Witness ==
    /\ pc = "done"
    /\ call >= 2
    /\ Cardinality(DOMAIN out) >= 2
    /\ \E n \in DOMAIN heap : heap[n].built < call /\ heap[n].source_path \notin DOMAIN fs

\* C9, as claimed: at the start of a walk_dir call the registry holds no entry
\* that an earlier call created.
C9_RegistryPerCall ==
    pc = "walk" /\ root = 0 =>
        \A p \in DOMAIN cache_map : heap[cache_map[p]].built = call

\* C9, amended: the registry outlives the call, but every parent lookup of a
\* call returns a Node that call created, and so every Node reachable from the
\* root a call returns was created by that call.
C9_LookupsAreFresh ==
    pc \in {"walk", "walked"} =>
        /\ cur_node # 0 => heap[cur_node].built = call
        /\ \A n \in TreeNodes : heap[n].built = call

\* a later call has looked a parent up while the registry still held an entry
\* of an earlier call
C9_Witness ==
    /\ pc = "walk"
    /\ call >= 2
    /\ cur_node # 0
    /\ \E p \in DOMAIN cache_map : heap[cache_map[p]].built < call

\* C10: no two Nodes of the tree have the same destination_path, and no leaf's
\* destination_path is the index.html gen_blog_dir writes for a category.
C10_OneWriterPerPath ==
    pc = "walked" =>
        /\ \A n, m \in TreeNodes :
              heap[n].destination_path = heap[m].destination_path => n = m
        /\ \A l, c \in TreeNodes :
              /\ heap[l].node_type = "leaf"
              /\ heap[c].node_type = "category"
              /\ NameOf(heap[c].source_path) # "images"
              => heap[l].destination_path # Join(heap[c].destination_path, "index.html")

(***************************************************************************)
(* deploy: the backup-swap on the remote host.                             *)
(***************************************************************************)

\* the remote steps of deploy in the order of the code: lines 297-315
DeployOrder == <<"put", "rm_bak", "mv_bak", "mv_tar", "untar", "rm_tar", "mv_public">>

\* the step after cmd, "done" after the last
Successor(cmd) ==
    LET i == CHOOSE k \in DOMAIN DeployOrder : DeployOrder[k] = cmd
    IN  IF i = Len(DeployOrder) THEN "done" ELSE DeployOrder[i + 1]

\* the command of a step succeeds on the remote files r
CommandOk(cmd, r) ==
    CASE cmd = "put" -> TRUE
      [] cmd = "rm_bak" -> TRUE
      [] cmd = "mv_bak" -> "blog" \in r
      [] cmd = "mv_tar" -> "home_tar" \in r
      [] cmd = "untar" -> "web_tar" \in r
      [] cmd = "rm_tar" -> "web_tar" \in r
      [] cmd = "mv_public" -> "public" \in r

\* the remote files after the command of a step has succeeded
CommandEffect(cmd, r) ==
    CASE cmd = "put" -> r \cup {"home_tar"}
      [] cmd = "rm_bak" -> r \ {"blog.bak"}
      [] cmd = "mv_bak" -> (r \ {"blog"}) \cup {"blog.bak"}
      [] cmd = "mv_tar" -> (r \ {"home_tar"}) \cup {"web_tar"}
      [] cmd = "untar" -> r \cup {"public"}
      [] cmd = "rm_tar" -> r \ {"web_tar"}
      [] cmd = "mv_public" -> (r \ {"public"}) \cup {"blog"}

\* a variant of AfterStep: a failed command does not stop the deploy
AfterStepMut(cmd, ok) == Successor(cmd)

\* where deploy goes after a step: a failed one raises out of the try block
AfterStep(cmd, ok) == IF ok THEN Successor(cmd) ELSE "failed"

\* deploy is called: lines 285-293
DeployStart ==
    /\ dpc \in {"idle", "done", "failed"}
    /\ deploys < MaxDeploys
    /\ deploys' = deploys + 1
    /\ issued' = <<>>
    /\ dpc' = DeployOrder[1]
    /\ UNCHANGED remote
    /\ UNCHANGED <<buildVars, sortVars, metaVars>>

\* one c.put or c.sudo call: the session may fail, or the command may
DeployStep ==
    /\ dpc \notin {"idle", "done", "failed"}
    /\ \E session \in BOOLEAN :
          LET ok == session /\ CommandOk(dpc, remote)
          IN  /\ issued' = Append(issued, [cmd |-> dpc, ok |-> ok])
              /\ remote' = IF ok THEN CommandEffect(dpc, remote) ELSE remote
              /\ dpc' = AfterStep(dpc, ok)
    /\ UNCHANGED deploys
    /\ UNCHANGED <<buildVars, sortVars, metaVars>>

(***************************************************************************)
(* Properties of sort_categories, read_metadata and deploy.                *)
(***************************************************************************)

IsArticle(item) == item.type = "article"

HasValidDate(item) ==
    /\ IsArticle(item)
    /\ DateOf(item) # <<>>
    /\ IsoValid(DateOf(item)[1])

\* the date is missing, or it cannot be parsed
HasBadDate(item) ==
    /\ IsArticle(item)
    /\ DateOf(item) = <<>> \/ ~IsoValid(DateOf(item)[1])

\* C2: the sort of a listing, whatever the types of its entries, completes, with
\* every category entry before every article entry, the category entries in
\* ascending case-insensitive order of name and the article entries in
\* descending order of date.  Stated for the listings whose article entries all
\* carry a date that parses, the ones the order by date is defined for.
C2_SortCompletesInOrder ==
    sorted # <<>> /\ (\A k \in DOMAIN categories :
                         IsArticle(categories[k]) => HasValidDate(categories[k])) =>
        /\ sorted[1].error = ""
        /\ \A i, j \in DOMAIN sorted[1].list :
              LET a == sorted[1].list[i]
                  b == sorted[1].list[j]
              IN  i < j =>
                    /\ ~(a.type = "article" /\ b.type = "category")
                    /\ a.type = "category" /\ b.type = "category"
                          => ~StrLess(lower(b.name), lower(a.name))
                    /\ HasValidDate(a) /\ HasValidDate(b)
                          => Timestamp(DateOf(a)[1], tz) >= Timestamp(DateOf(b)[1], tz)

\* C3: an article entry whose date is missing or cannot be parsed does not make
\* the sort fail, and is placed after every article entry that has a valid date.
C3_BadDateSortsLast ==
    sorted # <<>> /\ (\E k \in DOMAIN categories : HasBadDate(categories[k])) =>
        /\ sorted[1].error \notin {"ValueError"}
        /\ sorted[1].error = "" =>
              \A i, j \in DOMAIN sorted[1].list :
                 HasValidDate(sorted[1].list[i]) /\ HasBadDate(sorted[1].list[j]) => i < j

\* the lines of a text
Lines(c) == Split(c, "\n")

\* the first line after the first that equals the delimiter, 0 if none
ClosingLine(c) ==
    IF \E j \in 2..Len(Lines(c)) : Lines(c)[j] = Delimiter
    THEN CHOOSE j \in 2..Len(Lines(c)) :
            /\ Lines(c)[j] = Delimiter
            /\ \A k \in 2..(j - 1) : Lines(c)[k] # Delimiter
    ELSE 0

\* C7: for a file whose first line is --- and which has a later line ---,
\* read_metadata returns the mapping of the lines between the two, each line
\* with a colon split at its first colon and trimmed; for any other file it
\* returns the empty mapping.
C7_FrontMatter ==
    meta # <<>> =>
        meta[1] = IF Lines(content)[1] = Delimiter /\ ClosingLine(content) # 0
                  THEN ParseLines(SubSeq(Lines(content), 2, ClosingLine(content) - 1), {})
                  ELSE {}

\* C8, as claimed: the steps are issued in order, each after the one before it
\* succeeded, and the archive is deleted only after the decompressed directory
\* has been renamed to the live target name.
C8_DeleteAfterRename ==
    /\ \A i \in DOMAIN issued : i < Len(issued) => issued[i].ok
    /\ \A i \in DOMAIN issued :
          issued[i].cmd = "rm_tar" =>
             \E j \in 1..(i - 1) : issued[j].cmd = "mv_public" /\ issued[j].ok

\* C8, amended: the steps are issued in the order upload, delete the backup,
\* rename live to backup, move the archive, decompress, delete the archive,
\* rename the decompressed directory to live; each after the one before it
\* succeeded.  The archive is deleted before the rename, not after it.
C8_DeployOrder ==
    /\ Len(issued) <= 7
    /\ \A i \in DOMAIN issued :
          /\ issued[i].cmd =
                <<"put", "rm_bak", "mv_bak", "mv_tar", "untar", "rm_tar", "mv_public">>[i]
          /\ i < Len(issued) => issued[i].ok
    /\ dpc = "done" => Len(issued) = 7 /\ issued[7].ok

\* a deploy has issued every step, the rename last
C8_Witness ==
    /\ dpc = "done"
    /\ Len(issued) = 7
    /\ issued[6].cmd = "rm_tar" /\ issued[7].cmd = "mv_public"
    /\ "blog" \in remote /\ "blog.bak" \in remote

(***************************************************************************)
(* The specifications.                                                     *)
(***************************************************************************)

\* values of the variables a specification does not use
IdleBuild ==
    /\ rootName = "blog"
    /\ fs = [p \in {dir_path} |-> "dir"]
    /\ limits = [edits |-> 0, calls |-> 0]
    /\ edits = 0
    /\ pc = "idle"
    /\ call = 0
    /\ q = <<>>
    /\ root = 0
    /\ cur_node = 0
    /\ heap = <<>>
    /\ cache_map = [p \in {} |-> 0]
    /\ gq = <<>>
    /\ out = [p \in {} |-> 0]

IdleSort == tz = 0 /\ categories = <<>> /\ sorted = <<>>

IdleMeta == content = <<>> /\ meta = <<>>

IdleDeploy == dpc = "idle" /\ remote = {} /\ issued = <<>> /\ deploys = 0

\* the state of a fresh process before a build, with the bounds l
InitBuildWith(l) ==
    /\ rootName \in RootNames
    /\ fs = [p \in {dir_path} |-> "dir"]
    /\ limits = l
    /\ edits = 0
    /\ pc = "idle"
    /\ call = 0
    /\ q = <<>>
    /\ root = 0
    /\ cur_node = 0
    /\ heap = <<>>
    /\ cache_map = [p \in {} |-> 0]
    /\ gq = <<>>
    /\ out = [p \in {} |-> 0]
    /\ IdleSort /\ IdleMeta /\ IdleDeploy

\* one build of a source tree of up to MaxEdits entries
InitBuild == InitBuildWith([edits |-> MaxEdits, calls |-> 1])

\* up to MaxCalls builds in one process, the source edited in between
InitRuns == InitBuildWith([edits |-> MaxRunEdits, calls |-> MaxCalls])

NextBuild ==
    \/ AddEntry \/ RemoveEntry
    \/ WalkStart \/ WalkStep \/ WalkReturn
    \/ GenStart \/ GenStep \/ GenReturn

SpecBuild == InitBuild /\ [][NextBuild]_vars

SpecRuns == InitRuns /\ [][NextBuild]_vars

\* the entries a listing of the model is drawn from
SortSamples ==
    {ListingEntry("category", <<"b">>, <<>>),
     ListingEntry("category", <<"A">>, <<>>),
     ListingEntry("category", <<"a">>, <<>>),
     ListingEntry("leaf", <<"f">>, <<>>),
     ListingEntry("article", <<"p", "0">>, <<{}>>),
     ListingEntry("article", <<"p", "1">>,
                  <<{<<date_key, <<"2", "0", "2", "4", "-", "0", "1", "-", "0", "1", "T", "0", "0", ":", "0", "0", ":", "0", "0", "+", "0", "0", ":", "0", "0">>>>}>>),
     ListingEntry("article", <<"p", "2">>,
                  <<{<<date_key, <<"2", "0", "2", "4", "-", "0", "6", "-", "0", "1", "T", "0", "0", ":", "0", "0", ":", "0", "0", "+", "0", "0", ":", "0", "0">>>>}>>),
     ListingEntry("article", <<"p", "3">>,
                  <<{<<date_key, <<"2", "0", "2", "4", "-", "0", "1", "-", "0", "1", "T", "0", "8", ":", "0", "0", ":", "0", "0", "+", "0", "8", ":", "0", "0">>>>}>>),
     ListingEntry("article", <<"p", "4">>,
                  <<{<<date_key, <<"1", "9", "6", "9", "-", "1", "2", "-", "3", "1">>>>}>>),
     ListingEntry("article", <<"p", "5">>,
                  <<{<<date_key, <<>>>>}>>),
     ListingEntry("article", <<"p", "6">>,
                  <<{<<date_key, <<"y", "e", "s", "t", "e", "r", "d", "a", "y">>>>}>>),
     ListingEntry("article", <<"p", "7">>,
                  <<{<<date_key, <<"2", "0", "2", "4", "-", "0", "2", "-", "3", "0">>>>}>>)}

\* a listing: up to MaxListing entries, no entry twice
InitSort ==
    /\ tz \in {0, 8}
    /\ categories \in {s \in UNION {[1..n -> SortSamples] : n \in 1..MaxListing} :
                         \A i, j \in DOMAIN s : i # j => s[i] # s[j]}
    /\ sorted = <<>>
    /\ IdleBuild /\ IdleMeta /\ IdleDeploy

SpecSort == InitSort /\ [][Sort]_vars

\* the lines a file of the model is drawn from
LineSamples ==
    {<<"-", "-", "-">>,
     <<>>,
     <<"k", ":", " ", "v">>,
     <<"k", ":", "v", ":", "w">>,
     <<" ", "k", " ", ":", " ", "v", " ">>,
     <<"-", "-", "-", "-">>,
     <<"x">>}

\* lines joined by newlines
RECURSIVE JoinLines(_)
JoinLines(ls) ==
    IF ls = <<>> THEN <<>>
    ELSE IF Len(ls) = 1 THEN ls[1]
    ELSE ls[1] \o <<"\n">> \o JoinLines(Tail(ls))

\* a file: up to MaxLines lines, the last one with or without its newline
InitMeta ==
    /\ \E ls \in UNION {[1..n -> LineSamples] : n \in 0..MaxLines} :
       \E end \in {<<>>, <<"\n">>} :
          content = JoinLines(ls) \o end
    /\ meta = <<>>
    /\ IdleBuild /\ IdleSort /\ IdleDeploy

SpecMeta == InitMeta /\ [][ReadMetadata]_vars

\* the remote host before the first deploy of the model
InitDeploy ==
    /\ dpc = "idle"
    /\ remote \in SUBSET {"blog", "blog.bak", "public"}
    /\ issued = <<>>
    /\ deploys = 0
    /\ IdleBuild /\ IdleSort /\ IdleMeta

NextDeploy == DeployStart \/ DeployStep

SpecDeploy == InitDeploy /\ [][NextDeploy]_vars

====
